---- MODULE Spec2Model ----
(***************************************************************************)
(* Model of biggerquery/configuration.py: the Config store (named          *)
(* property sets, master inheritance, environment-variable fallback,       *)
(* placeholder substitution) and the DatasetConfig facade over it.         *)
(*                                                                         *)
(* Python values.  A str is a sequence of symbols; a symbol is either one  *)
(* of the brace characters "{" and "}" or a brace-free chunk of text, and  *)
(* the chunks used here are chosen so that no chunk is a concatenation of  *)
(* others: substring search on the characters and on the symbols agree.    *)
(* A value is a record [t, s]: t is the Python type ("str", "None",        *)
(* "list", "dict") and s the content.  A dict is the sequence of its       *)
(* <<key, value>> items in insertion order, as Python keeps it.            *)
(***************************************************************************)
EXTENDS Naturals, Sequences, FiniteSets

VARIABLES
    configs,                        \* Config.configs: name -> EnvConfig
    master_config_name,             \* <<>> when the attribute is not set, else <<name>>
    environment_variables_prefix,   \* Config.environment_variables_prefix
    environ,                        \* os.environ, a dict of str -> str
    pre,                            \* Config.configs as it was when the last call started
    lastCall,                       \* the last call made on the object and its arguments
    result,                         \* what the last call returned or raised
    adds                            \* number of add_configuration calls made

vars == <<configs, master_config_name, environment_variables_prefix, environ,
          pre, lastCall, result, adds>>

---------------------------------------------------------------------------
(* Python values *)

Str(s) == [t |-> "str", s |-> s]
None == [t |-> "None", s |-> <<>>]
List(s) == [t |-> "list", s |-> s]
Dict(s) == [t |-> "dict", s |-> s]

\* bool(v): None, '', [] and {} are falsy
Truthy(v) == v.t # "None" /\ v.s # <<>>

\* isinstance(v, str)
IsStr(v) == v.t = "str"

Return(v) == [kind |-> "return", value |-> v]
Raise(exc, msg) == [kind |-> exc, value |-> msg]

---------------------------------------------------------------------------
(* dict operations, on sequences of <<key, value>> items *)

dict_keys(d) == {d[i][1] : i \in 1..Len(d)}

dict_has(d, k) == \E i \in 1..Len(d) : d[i][1] = k

dict_get(d, k) == d[CHOOSE i \in 1..Len(d) : d[i][1] = k][2]

\* d[k] = v: an existing key keeps its place, a new key goes last
dict_set(d, k, v) ==
    IF dict_has(d, k)
    THEN [i \in 1..Len(d) |-> IF d[i][1] = k THEN <<k, v>> ELSE d[i]]
    ELSE Append(d, <<k, v>>)

RECURSIVE dict_update(_, _)
dict_update(d, other) ==
    IF other = <<>> THEN d
    ELSE dict_update(dict_set(d, Head(other)[1], Head(other)[2]), Tail(other))

\* faulty variant: only the first occurrence is replaced
str_replace_first_only(s, old, new) ==
    LET starts == {i \in 1..Len(s) :
                      /\ i + Len(old) - 1 <= Len(s)
                      /\ SubSeq(s, i, i + Len(old) - 1) = old}
    IN  IF starts = {} THEN s
        ELSE LET i == CHOOSE j \in starts : \A m \in starts : j <= m
             IN  SubSeq(s, 1, i - 1) \o new \o SubSeq(s, i + Len(old), Len(s))

\* str.replace(old, new) for a non-empty old: leftmost, non-overlapping
RECURSIVE str_replace(_, _, _)
str_replace(s, old, new) ==
    IF Len(s) < Len(old) THEN s
    ELSE IF SubSeq(s, 1, Len(old)) = old
         THEN new \o str_replace(SubSeq(s, Len(old) + 1, Len(s)), old, new)
         ELSE <<Head(s)>> \o str_replace(Tail(s), old, new)

\* old in s
RECURSIVE str_contains(_, _)
str_contains(s, old) ==
    IF Len(s) < Len(old) THEN FALSE
    ELSE SubSeq(s, 1, Len(old)) = old \/ str_contains(Tail(s), old)

---------------------------------------------------------------------------
(* class EnvConfig, class Config *)

EnvConfig(name, properties) == [name |-> name, properties |-> properties]

has_master_config == Len(master_config_name) = 1

\* Config._get_master_properties: a copy of the master's dict, or {}
_get_master_properties ==
    IF ~has_master_config THEN << >>
    ELSE configs[master_config_name[1]].properties

\* faulty variants of add_configuration: the master's dict is updated in place
\* (no copy); the old entry of the name is kept under the new one; the
\* master's values win over the overrides
add_configuration_mutates_master(name, properties) ==
    LET all_properties == dict_update(_get_master_properties, properties)
        stored == [n \in DOMAIN configs \cup {name} |->
                      IF n = name THEN EnvConfig(name, all_properties) ELSE configs[n]]
    IN  IF has_master_config
        THEN [stored EXCEPT ![master_config_name[1]] =
                 EnvConfig(master_config_name[1], all_properties)]
        ELSE stored

add_configuration_merges_old(name, properties) ==
    LET base == IF name \in DOMAIN configs
                THEN dict_update(configs[name].properties, _get_master_properties)
                ELSE _get_master_properties
        all_properties == dict_update(base, properties)
    IN  [n \in DOMAIN configs \cup {name} |->
            IF n = name THEN EnvConfig(name, all_properties) ELSE configs[n]]

add_configuration_overrides_lose(name, properties) ==
    LET all_properties == dict_update(properties, _get_master_properties)
    IN  [n \in DOMAIN configs \cup {name} |->
            IF n = name THEN EnvConfig(name, all_properties) ELSE configs[n]]

\* Config.add_configuration: the configs mapping after the call
add_configuration(name, properties) ==
    LET all_properties == dict_update(_get_master_properties, properties)
    IN  [n \in DOMAIN configs \cup {name} |->
            IF n = name THEN EnvConfig(name, all_properties) ELSE configs[n]]

\* Config._resolve_property_from_os_env
_resolve_property_from_os_env(key) ==
    LET env_var_name == environment_variables_prefix \o key
    IN  IF ~dict_has(environ, env_var_name)
        THEN Raise("ValueError",
                   <<"failed to load property value '">> \o key
                   \o <<"' from os.environment, no such env variable '">>
                   \o env_var_name \o <<"'">>)
        ELSE Return(dict_get(environ, env_var_name))

\* faulty variant: the master is the default environment
default_config_name_from_master ==
    IF has_master_config THEN Return(Str(master_config_name[1]))
    ELSE _resolve_property_from_os_env(<<"env">>)

\* Config._resolve_default_config_name
_resolve_default_config_name == _resolve_property_from_os_env(<<"env">>)

\* Config._get_env_config
_get_env_config(name) ==
    LET used == IF Truthy(name) THEN Return(name) ELSE _resolve_default_config_name
    IN  IF used.kind # "return" THEN used
        ELSE LET used_name == used.value.s
             IN  IF used_name \notin DOMAIN configs
                 THEN Raise("ValueError", <<"no such config name: ">> \o used_name)
                 ELSE Return(configs[used_name])

\* faulty variant: None is kept
fallback_keeps_none(key, value) == Return(value)

\* Config._resolve_property_with_os_env_fallback
_resolve_property_with_os_env_fallback(key, value) ==
    IF value = None THEN _resolve_property_from_os_env(key)
    ELSE Return(value)

\* Config.resolve, lines 35-36: the dict comprehension, item by item in dict
\* order; the first lookup that raises ends it
RECURSIVE properties_with_placeholders(_)
properties_with_placeholders(properties) ==
    IF properties = <<>> THEN Return(<<>>)
    ELSE LET key == Head(properties)[1]
             r == _resolve_property_with_os_env_fallback(key, Head(properties)[2])
         IN  IF r.kind # "return" THEN r
             ELSE LET rest == properties_with_placeholders(Tail(properties))
                  IN  IF rest.kind # "return" THEN rest
                      ELSE Return(<<<<key, r.value>>>> \o rest.value)

\* Config.resolve, line 38
string_properties(with_placeholders) ==
    SelectSeq(with_placeholders, LAMBDA item : IsStr(item[2]))

\* Config._resolve_placeholders, lines 90-92: the loop over variables.items()
RECURSIVE replace_loop(_, _, _)
replace_loop(modified_value, value, variables) ==
    IF variables = <<>> THEN modified_value
    ELSE LET k == Head(variables)[1]
             v == Head(variables)[2].s
         IN  replace_loop(IF v # value
                          THEN str_replace(modified_value, <<"{">> \o k \o <<"}">>, v)
                          ELSE modified_value,
                          value, Tail(variables))

\* faulty variant: every placeholder of the original value is replaced and
\* the text put in is not looked at again
RECURSIVE replace_isolated(_, _, _)
replace_isolated(value, variables, done) ==
    IF value = <<>> THEN <<>>
    ELSE LET hits == {i \in 1..Len(variables) :
                         /\ variables[i][2].s # done
                         /\ LET tok == <<"{">> \o variables[i][1] \o <<"}">>
                            IN  Len(value) >= Len(tok) /\ SubSeq(value, 1, Len(tok)) = tok}
         IN  IF hits = {} THEN <<Head(value)>> \o replace_isolated(Tail(value), variables, done)
             ELSE LET i == CHOOSE j \in hits : TRUE
                      tok == <<"{">> \o variables[i][1] \o <<"}">>
                  IN  variables[i][2].s
                      \o replace_isolated(SubSeq(value, Len(tok) + 1, Len(value)),
                                          variables, done)

resolve_placeholders_no_rescan(value, variables) ==
    IF IsStr(value) THEN Str(replace_isolated(value.s, variables, value.s))
    ELSE value

\* Config._resolve_placeholders
_resolve_placeholders(value, variables) ==
    IF IsStr(value) THEN Str(replace_loop(value.s, value.s, variables))
    ELSE value

\* faulty variant: the placeholders are filled from the master's strings
substitution_table_of_master(with_placeholders) ==
    IF has_master_config
    THEN string_properties(configs[master_config_name[1]].properties)
    ELSE string_properties(with_placeholders)

\* the table Config.resolve hands to _resolve_placeholders (line 40)
substitution_table(with_placeholders) == string_properties(with_placeholders)

\* Config.resolve
resolve(name) ==
    LET env_config == _get_env_config(name)
    IN  IF env_config.kind # "return" THEN env_config
        ELSE LET with_placeholders ==
                     properties_with_placeholders(env_config.value.properties)
             IN  IF with_placeholders.kind # "return" THEN with_placeholders
                 ELSE LET table == substitution_table(with_placeholders.value)
                      IN  Return([i \in 1..Len(with_placeholders.value) |->
                                     <<with_placeholders.value[i][1],
                                       _resolve_placeholders(with_placeholders.value[i][2],
                                                             table)>>])

\* Config.resolve_property
resolve_property(property_name, config_name) ==
    LET r == resolve(config_name)
    IN  IF r.kind # "return" THEN r
        ELSE IF ~dict_has(r.value, property_name)
             THEN Raise("KeyError", property_name)
             ELSE Return(dict_get(r.value, property_name))

---------------------------------------------------------------------------
(* Inputs of the Config store *)

MaxAdds == 2

K(sym) == <<sym>>
Tok(sym) == <<"{", sym, "}">>

prod == <<"prod">>
dev == <<"dev">>

\* Config(name, properties, ...): the properties of the first environment
InitProperties ==
    { << <<K("project_id"), Str(<<"p1">>)>>,
         <<K("env"), Str(prod)>>,
         <<K("dataset_name"), Str(Tok("project_id") \o <<"_ds">>)>> >>,
      << <<K("a"), Str(Tok("b"))>>, <<K("b"), Str(Tok("c"))>>, <<K("c"), Str(<<"x">>)>> >>,
      << <<K("c"), Str(<<"x">>)>>, <<K("b"), Str(Tok("c"))>>, <<K("a"), Str(Tok("b"))>> >>,
      << <<K("a"), Str(Tok("b"))>>, <<K("b"), Str(Tok("a"))>> >>,
      << <<K("c"), Str(<<"x">>)>>, <<K("b"), Str(<<"c">>)>>,
         <<K("a"), Str(<<"{", "{", "b", "}", "}">>)>> >>,
      << <<K("a"), None>>, <<K("b"), Str(Tok("a") \o <<"_">> \o Tok("tables"))>>,
         <<K("tables"), List(<<"t1">>)>> >> }

\* add_configuration(name, properties): the overrides
Overrides ==
    { << >>,
      << <<K("project_id"), Str(<<"p2">>)>> >>,
      << <<K("b"), Str(<<"y">>)>> >>,
      << <<K("b"), None>> >>,
      << <<K("d"), Str(Tok("a") \o Tok("a"))>>, <<K("a"), Str(<<"x">>)>> >>,
      << <<K("c"), List(<<"t2">>)>>, <<K("e"), Str(Tok("e"))>> >> }

AddNames == {prod, dev}

\* resolve(name): no name, '' and names
ResolveNames == {None, Str(prod), Str(dev)}

PropertyNames == {K("a"), K("dataset_name")}

Prefixes == {<< >>, <<"BQ_">>}

\* os.environ
Environs ==
    { << >>,
      << <<K("env"), Str(dev)>>, <<K("a"), Str(Tok("b"))>>,
         <<K("tables"), Str(<<"w">>)>>,
         <<<<"BQ_", "env">>, Str(prod)>> >>,
      << <<<<"BQ_", "env">>, Str(dev)>>, <<<<"BQ_", "a">>, Str(<<"z">>)>>,
         <<K("a"), Str(<<"z">>)>> >> }

---------------------------------------------------------------------------
(* The Config store as a state machine *)

\* Config.__init__
Init ==
    \E properties \in InitProperties, is_master \in BOOLEAN,
       prefix \in Prefixes, env \in Environs :
        /\ configs = [n \in {prod} |-> EnvConfig(prod, properties)]
        /\ master_config_name = IF is_master THEN <<prod>> ELSE << >>
        /\ environment_variables_prefix = prefix
        /\ environ = env
        /\ pre = << >>
        /\ lastCall = [op |-> "__init__", name |-> prod, properties |-> properties]
        /\ result = Return(None)
        /\ adds = 0

AddConfiguration ==
    /\ adds < MaxAdds
    /\ \E name \in AddNames, properties \in Overrides :
        /\ configs' = add_configuration(name, properties)
        /\ lastCall' = [op |-> "add_configuration", name |-> name,
                        properties |-> properties]
    /\ pre' = configs
    /\ result' = Return([t |-> "Config", s |-> << >>])
    /\ adds' = adds + 1
    /\ UNCHANGED <<master_config_name, environment_variables_prefix, environ>>

Resolve ==
    /\ \E name \in ResolveNames :
        /\ result' = resolve(name)
        /\ lastCall' = [op |-> "resolve", name |-> name]
    /\ pre' = configs
    /\ UNCHANGED <<configs, master_config_name, environment_variables_prefix,
                   environ, adds>>

ResolveProperty ==
    /\ \E property_name \in PropertyNames, config_name \in ResolveNames :
        /\ result' = resolve_property(property_name, config_name)
        /\ lastCall' = [op |-> "resolve_property", name |-> config_name,
                        property_name |-> property_name]
    /\ pre' = configs
    /\ UNCHANGED <<configs, master_config_name, environment_variables_prefix,
                   environ, adds>>

Next == AddConfiguration \/ Resolve \/ ResolveProperty

Spec == Init /\ [][Next]_vars

---------------------------------------------------------------------------
(* Properties of the Config store *)

IsAdd == lastCall.op = "add_configuration"
IsResolve == lastCall.op = "resolve"

MasterBefore == pre[master_config_name[1]].properties
Added == configs[lastCall.name].properties

\* C1: an environment registered by add_configuration while a master exists
\* has the master's value (as stored when the call was made) for every master
\* key the overrides do not name, and the supplied value for every key of the
\* overrides.
C1_InheritsMasterUnderOverrides ==
    IsAdd /\ has_master_config =>
        /\ \A k \in dict_keys(MasterBefore) \ dict_keys(lastCall.properties) :
              dict_has(Added, k) /\ dict_get(Added, k) = dict_get(MasterBefore, k)
        /\ \A k \in dict_keys(lastCall.properties) :
              dict_has(Added, k) /\ dict_get(Added, k) = dict_get(lastCall.properties, k)

C1_Witness ==
    /\ IsAdd /\ has_master_config
    /\ lastCall.name = dev
    /\ \E k \in dict_keys(MasterBefore) : k \notin dict_keys(lastCall.properties)
    /\ \E k \in dict_keys(lastCall.properties) :
          dict_has(MasterBefore, k)
          /\ dict_get(MasterBefore, k) # dict_get(lastCall.properties, k)

\* C2: add_configuration under a name that is already registered raises
\* nothing and leaves under that name exactly the master's keys and the
\* overrides' keys: a key that only the old entry had is gone.
C2_ReRegistrationReplaces ==
    IsAdd /\ lastCall.name \in DOMAIN pre =>
        LET base == IF has_master_config THEN dict_keys(MasterBefore) ELSE {}
        IN  /\ result.kind = "return"
            /\ dict_keys(Added) = base \cup dict_keys(lastCall.properties)
            /\ \A k \in dict_keys(pre[lastCall.name].properties) :
                  k \notin base /\ k \notin dict_keys(lastCall.properties)
                      => ~dict_has(Added, k)

C2_Witness ==
    /\ IsAdd /\ lastCall.name \in DOMAIN pre
    /\ has_master_config /\ lastCall.name # master_config_name[1]
    /\ \E k \in dict_keys(pre[lastCall.name].properties) :
          /\ k \notin dict_keys(MasterBefore)
          /\ k \notin dict_keys(lastCall.properties)
          /\ ~dict_has(Added, k)

\* C10: add_configuration(name, ...) leaves every other registered
\* environment, the master name and the prefix as they were, and registers
\* nothing but name.
C10_AddChangesOnlyItsEntry ==
    [][adds' # adds =>
          /\ \A n \in DOMAIN configs \ {lastCall'.name} :
                n \in DOMAIN configs' /\ configs'[n] = configs[n]
          /\ DOMAIN configs' = DOMAIN configs \cup {lastCall'.name}
          /\ master_config_name' = master_config_name
          /\ environment_variables_prefix' = environment_variables_prefix]_vars

\* the master is re-registered after dev was derived from it: dev keeps the
\* values it inherited, which the master no longer has
C10_Witness ==
    /\ IsAdd /\ has_master_config
    /\ lastCall.name = master_config_name[1]
    /\ dev \in DOMAIN pre
    /\ configs[dev] = pre[dev]
    /\ configs[prod] # pre[prod]
    /\ \E k \in dict_keys(configs[dev].properties) :
          /\ dict_has(pre[prod].properties, k)
          /\ dict_get(configs[dev].properties, k) = dict_get(pre[prod].properties, k)
          /\ dict_get(configs[prod].properties, k) # dict_get(pre[prod].properties, k)

---------------------------------------------------------------------------
(* Properties of Config.resolve *)

BraceFree(s) == \A i \in 1..Len(s) : s[i] \notin {"{", "}"}

\* between two "{" there is a "}": placeholders are not nested
NotNested(s) ==
    \A i, j \in 1..Len(s) :
        i < j /\ s[i] = "{" /\ s[j] = "{" => \E m \in (i + 1)..(j - 1) : s[m] = "}"

VarName(k) == environment_variables_prefix \o k

\* the environment a resolve call without a name falls back to
DefaultVar == VarName(<<"env">>)

TargetName ==
    IF Truthy(lastCall.name) THEN lastCall.name.s
    ELSE dict_get(environ, DefaultVar).s

TargetKnown ==
    /\ Truthy(lastCall.name) \/ dict_has(environ, DefaultVar)
    /\ TargetName \in DOMAIN configs

\* the target's stored properties, and their values once None is filled
\* from os.environ
Stored == configs[TargetName].properties

Filled(i) ==
    IF Stored[i][2] = None THEN dict_get(environ, VarName(Stored[i][1]))
    ELSE Stored[i][2]

Table == SelectSeq([i \in 1..Len(Stored) |-> <<Stored[i][1], Filled(i)>>],
                   LAMBDA item : IsStr(item[2]))

Missing ==
    {i \in 1..Len(Stored) :
        Stored[i][2] = None /\ ~dict_has(environ, VarName(Stored[i][1]))}

FirstMissing == CHOOSE i \in Missing : \A j \in Missing : i <= j

Returned == IsResolve /\ TargetKnown /\ result.kind = "return"

\* C3 as stated: a None value resolves to the variable's value itself, and
\* the error names every key whose variable is missing.
C3_AsStated ==
    IsResolve /\ TargetKnown =>
        /\ result.kind = "return" <=> Missing = {}
        /\ \A i \in Missing :
              /\ result.kind = "ValueError"
              /\ str_contains(result.value, Stored[i][1])
              /\ str_contains(result.value, VarName(Stored[i][1]))
        /\ result.kind = "return" =>
              \A i \in 1..Len(Stored) :
                  Stored[i][2] = None =>
                      result.value[i] = <<Stored[i][1],
                                          dict_get(environ, VarName(Stored[i][1]))>>

\* C3 (amended): resolve returns exactly when every None value has its
\* variable envVarPrefix + k set; otherwise it raises an error naming the
\* first such key in dict order and its variable.  A None value resolves to
\* the variable's value with the placeholders substituted (the variable's
\* value itself when that has no brace); a stored value that is not None is
\* never replaced by a variable.
C3_NoneFallsBackToEnviron ==
    IsResolve /\ TargetKnown =>
        /\ result.kind = "return" <=> Missing = {}
        /\ Missing # {} =>
              /\ result.kind = "ValueError"
              /\ str_contains(result.value, Stored[FirstMissing][1])
              /\ str_contains(result.value, VarName(Stored[FirstMissing][1]))
        /\ result.kind = "return" =>
              /\ Len(result.value) = Len(Stored)
              /\ \A i \in 1..Len(Stored) :
                    LET k == Stored[i][1]
                        v == Stored[i][2]
                        var == dict_get(environ, VarName(k))
                    IN  /\ result.value[i][1] = k
                        /\ v = None =>
                              /\ result.value[i][2] = Str(replace_loop(var.s, var.s, Table))
                              /\ BraceFree(var.s) => result.value[i][2] = var
                        /\ v # None /\ (~IsStr(v) \/ BraceFree(v.s)) =>
                              result.value[i][2] = v

\* a None value was filled from a variable whose value holds a placeholder,
\* while another key, not None, has a variable of its own name set
C3_Witness ==
    /\ Returned
    /\ \E i \in 1..Len(Stored) :
          /\ Stored[i][2] = None
          /\ ~BraceFree(dict_get(environ, VarName(Stored[i][1])).s)
          /\ result.value[i][2] # dict_get(environ, VarName(Stored[i][1]))
    /\ \E i \in 1..Len(Stored) :
          /\ Stored[i][2] # None
          /\ dict_has(environ, VarName(Stored[i][1]))
          /\ result.value[i][2] = Stored[i][2]

\* C4: resolve without a name takes the name from the variable
\* envVarPrefix + "env" alone; it raises when the variable is not set, and
\* when the name, given or default, is not registered; otherwise it returns
\* what resolve of that name returns.
C4_DefaultNameFromEnviron ==
    IsResolve =>
        /\ ~Truthy(lastCall.name) /\ ~dict_has(environ, DefaultVar) =>
              /\ result.kind = "ValueError"
              /\ str_contains(result.value, DefaultVar)
        /\ (Truthy(lastCall.name) \/ dict_has(environ, DefaultVar))
           /\ TargetName \notin DOMAIN configs =>
              result = Raise("ValueError", <<"no such config name: ">> \o TargetName)
        /\ ~Truthy(lastCall.name) /\ TargetKnown =>
              result = resolve(Str(TargetName))

\* the default comes from os.environ and names the derived environment,
\* while the master stores another 'env' property
C4_Witness ==
    /\ IsResolve /\ ~Truthy(lastCall.name) /\ TargetKnown
    /\ has_master_config /\ TargetName # master_config_name[1]
    /\ dict_has(Stored, <<"env">>)
    /\ dict_get(Stored, <<"env">>) = Str(master_config_name[1])
    /\ result.kind = "return"
    /\ result # resolve(Str(master_config_name[1]))

---------------------------------------------------------------------------
(* Properties of the placeholder substitution *)

Pos(d, k) == CHOOSE i \in 1..Len(d) : d[i][1] = k

HasValue(d, k, v) == dict_has(d, k) /\ dict_get(d, k) = v

\* the properties {a: "{b}", b: "{c}", c: "x"}, in any order and among others
ChainCase ==
    /\ HasValue(Table, K("a"), Str(Tok("b")))
    /\ HasValue(Table, K("b"), Str(Tok("c")))
    /\ HasValue(Table, K("c"), Str(<<"x">>))

C6_AsStated ==
    Returned =>
        \A i \in 1..Len(result.value), n \in 1..Len(Table) :
            IsStr(result.value[i][2]) =>
                ~str_contains(result.value[i][2].s, <<"{">> \o Table[n][1] \o <<"}">>)

\* the keys whose placeholder occurs in s
Referenced(s) ==
    {n \in 1..Len(Table) : str_contains(s, <<"{">> \o Table[n][1] \o <<"}">>)}

\* C6 (amended): a returned string holds no token {K} of a string-valued key
\* K whose value differs from the value being resolved, provided that value's
\* placeholders are not nested, no key of the table holds a brace, and every
\* key whose placeholder occurs in the value has either a brace-free value
\* or the value being resolved itself.
C6_OneLevelSubstituted ==
    Returned =>
        \A i \in 1..Len(Stored) :
            LET val == Filled(i)
            IN  /\ IsStr(val)
                /\ NotNested(val.s)
                /\ \A n \in 1..Len(Table) : BraceFree(Table[n][1])
                /\ \A n \in Referenced(val.s) :
                      Table[n][2] = val \/ BraceFree(Table[n][2].s)
                => \A n \in 1..Len(Table) :
                      Table[n][2] # val =>
                          ~str_contains(result.value[i][2].s,
                                        <<"{">> \o Table[n][1] \o <<"}">>)

\* a value with two placeholders of brace-free keys was resolved
C6_Witness ==
    /\ Returned
    /\ \E i \in 1..Len(Stored) :
          /\ IsStr(Filled(i)) /\ NotNested(Filled(i).s)
          /\ Referenced(Filled(i).s) # {}
          /\ \A n \in Referenced(Filled(i).s) : BraceFree(Table[n][2].s)
          /\ BraceFree(result.value[i][2].s)
          /\ result.value[i][2] # Filled(i)

\* C7: a value "{K}tail" of environment E resolves to E's own value of K
\* followed by tail (K a key of E with a brace-free string value, tail
\* brace-free), whatever the master stores under K.
C7_SubstitutedFromOwnProperties ==
    Returned =>
        \A i \in 1..Len(Stored), n \in 1..Len(Table) :
            LET val == Filled(i)
                tail == SubSeq(val.s, Len(Table[n][1]) + 3, Len(val.s))
            IN  /\ IsStr(val)
                /\ val.s = <<"{">> \o Table[n][1] \o <<"}">> \o tail
                /\ BraceFree(Table[n][1]) /\ BraceFree(tail)
                /\ BraceFree(Table[n][2].s)
                => result.value[i][2] = Str(Table[n][2].s \o tail)

\* dev overrides project_id only: its dataset_name is "p2_ds" while the
\* master's is "p1_ds"
C7_Witness ==
    /\ Returned /\ TargetName = dev
    /\ has_master_config
    /\ HasValue(configs[master_config_name[1]].properties, K("project_id"), Str(<<"p1">>))
    /\ HasValue(Stored, K("project_id"), Str(<<"p2">>))
    /\ HasValue(Stored, K("dataset_name"), Str(Tok("project_id") \o <<"_ds">>))
    /\ HasValue(result.value, K("dataset_name"), Str(<<"p2", "_ds">>))
    /\ HasValue(resolve(Str(master_config_name[1])).value, K("dataset_name"),
                Str(<<"p1", "_ds">>))

---------------------------------------------------------------------------
(* class DatasetConfig: the facade over a Config (self.delegate) *)

\* properties or {}
or_empty(properties) == IF Truthy(properties) THEN properties.s ELSE << >>

\* DatasetConfig.__init__: the properties handed to Config(name=env, ...)
DatasetConfig_init(env, project_id, dataset_name, internal_tables, external_tables, properties) ==
    LET p0 == or_empty(properties)
        p1 == dict_set(p0, K("project_id"), project_id)
        p2 == dict_set(p1, K("env"), Str(env))
        p3 == dict_set(p2, K("dataset_name"), dataset_name)
        p4 == dict_set(p3, K("internal_tables"),
                       IF Truthy(internal_tables) THEN internal_tables ELSE List(<< >>))
    IN  dict_set(p4, K("external_tables"),
                 IF Truthy(external_tables) THEN external_tables ELSE Dict(<< >>))

\* faulty variant: "is not None" in place of truthiness
add_configuration_forces_optionals(env, project_id, dataset_name, internal_tables, external_tables, properties) ==
    LET p0 == or_empty(properties)
        p1 == dict_set(p0, K("project_id"), project_id)
        p2 == dict_set(p1, K("env"), Str(env))
        p3 == IF dataset_name # None
              THEN dict_set(p2, K("dataset_name"), dataset_name) ELSE p2
        p4 == IF internal_tables # None
              THEN dict_set(p3, K("internal_tables"), internal_tables) ELSE p3
    IN  IF external_tables # None
        THEN dict_set(p4, K("external_tables"), external_tables) ELSE p4

\* DatasetConfig.add_configuration: the overrides handed to
\* self.delegate.add_configuration(env, ...)
DatasetConfig_add_configuration(env, project_id, dataset_name, internal_tables, external_tables, properties) ==
    LET p0 == or_empty(properties)
        p1 == dict_set(p0, K("project_id"), project_id)
        p2 == dict_set(p1, K("env"), Str(env))
        p3 == IF Truthy(dataset_name)
              THEN dict_set(p2, K("dataset_name"), dataset_name) ELSE p2
        p4 == IF Truthy(internal_tables)
              THEN dict_set(p3, K("internal_tables"), internal_tables) ELSE p3
    IN  IF Truthy(external_tables)
        THEN dict_set(p4, K("external_tables"), external_tables) ELSE p4

\* faulty variant: 'env' is missing from the list
is_extra_property_forgets_env(property_name) ==
    property_name \notin {K("project_id"), K("dataset_name"), K("internal_tables"),
                          K("external_tables")}

\* DatasetConfig._is_extra_property
_is_extra_property(property_name) ==
    property_name \notin {K("project_id"), K("dataset_name"), K("internal_tables"),
                          K("external_tables"), K("env")}

\* DatasetConfig.resolve_extra_properties
resolve_extra_properties(env) ==
    LET r == resolve(env)
    IN  IF r.kind # "return" THEN r
        ELSE Return(SelectSeq(r.value, LAMBDA item : _is_extra_property(item[1])))

\* DatasetConfig.create_dataset_manager: the arguments are evaluated in
\* order, the first one that raises ends the call
create_dataset_manager(env) ==
    LET project_id == resolve_property(K("project_id"), env)
        dataset_name == resolve_property(K("dataset_name"), env)
        internal_tables == resolve_property(K("internal_tables"), env)
        external_tables == resolve_property(K("external_tables"), env)
        extras == resolve_extra_properties(env)
    IN  IF project_id.kind # "return" THEN project_id
        ELSE IF dataset_name.kind # "return" THEN dataset_name
        ELSE IF internal_tables.kind # "return" THEN internal_tables
        ELSE IF external_tables.kind # "return" THEN external_tables
        ELSE IF extras.kind # "return" THEN extras
        ELSE Return([t |-> "InteractiveDatasetManager",
                     project_id |-> project_id.value,
                     dataset_name |-> dataset_name.value,
                     internal_tables |-> internal_tables.value,
                     external_tables |-> external_tables.value,
                     extras |-> extras.value])

---------------------------------------------------------------------------
(* Inputs of the DatasetConfig facade *)

MaxDatasetAdds == 1

InitProjectIds == {Str(<<"p1">>), None}

\* dataset_name: the default 'None' of __init__, or a name
InitDatasetNames == {Str(<<"None">>), Str(Tok("project_id") \o <<"_ds">>)}

\* <<internal_tables, external_tables>>
InitTables == {<<None, None>>, <<List(<<"t1">>), Dict(<<"e1">>)>>}

InitExtras ==
    { None,
      Dict(<< <<K("k"), Str(Tok("env") \o <<"_x">>)>>,
              <<K("dataset_name"), Str(<<"extra_ds">>)>> >>) }

\* <<dataset_name, internal_tables, external_tables>> of add_configuration:
\* omitted, empty, supplied
AddOptionals ==
    { <<None, None, None>>,
      <<Str(<< >>), List(<< >>), Dict(<< >>)>>,
      <<Str(<<"ds2">>), List(<<"t2">>), Dict(<<"e2">>)>>,
      <<Str(<<"ds2">>), None, Dict(<< >>)>>,
      <<None, List(<<"t2">>), None>> }

AddExtras ==
    { None,
      Dict(<< <<K("dataset_name"), Str(<<"extra_ds">>)>>,
              <<K("k"), Str(<<"v">>)>> >>),
      Dict(<< <<K("env"), Str(<<"zz">>)>>, <<K("project_id"), Str(<<"zz">>)>>,
              <<K("internal_tables"), List(<<"t3">>)>> >>) }

DatasetEnviron == << <<K("env"), Str(dev)>> >>

\* resolve(env): no env (the default, dev) or the first environment
DatasetResolveNames == {None, Str(prod)}

---------------------------------------------------------------------------
(* The DatasetConfig facade as a state machine *)

\* DatasetConfig.__init__
DatasetInit ==
    \E project_id \in InitProjectIds, dataset_name \in InitDatasetNames,
       tables \in InitTables, properties \in InitExtras, is_master \in BOOLEAN :
        /\ configs = [n \in {prod} |->
                         EnvConfig(prod, DatasetConfig_init(prod, project_id, dataset_name,
                                                            tables[1], tables[2], properties))]
        /\ master_config_name = IF is_master THEN <<prod>> ELSE << >>
        /\ environment_variables_prefix = << >>
        /\ environ = DatasetEnviron
        /\ pre = << >>
        /\ lastCall = [op |-> "DatasetConfig.__init__", name |-> prod]
        /\ result = Return(None)
        /\ adds = 0

DatasetAddConfiguration ==
    /\ adds < MaxDatasetAdds
    /\ \E env \in AddNames, optionals \in AddOptionals, properties \in AddExtras :
        LET project_id == Str(<<"p2">>)
        IN  /\ configs' = add_configuration(env,
                              DatasetConfig_add_configuration(env, project_id,
                                  optionals[1], optionals[2], optionals[3], properties))
            /\ lastCall' = [op |-> "DatasetConfig.add_configuration", name |-> env,
                            project_id |-> project_id, dataset_name |-> optionals[1],
                            internal_tables |-> optionals[2],
                            external_tables |-> optionals[3],
                            properties |-> properties]
    /\ pre' = configs
    /\ result' = Return([t |-> "DatasetConfig", s |-> << >>])
    /\ adds' = adds + 1
    /\ UNCHANGED <<master_config_name, environment_variables_prefix, environ>>

\* DatasetConfig.resolve
DatasetResolve ==
    /\ \E env \in DatasetResolveNames :
        /\ result' = resolve(env)
        /\ lastCall' = [op |-> "resolve", name |-> env]
    /\ pre' = configs
    /\ UNCHANGED <<configs, master_config_name, environment_variables_prefix,
                   environ, adds>>

\* DatasetConfig.resolve_project_id, resolve_dataset_name,
\* resolve_internal_tables, resolve_external_tables
DatasetResolveProperty ==
    /\ \E env \in DatasetResolveNames,
          property_name \in {K("project_id"), K("dataset_name"),
                             K("internal_tables"), K("external_tables")} :
        /\ result' = resolve_property(property_name, env)
        /\ lastCall' = [op |-> "resolve_property", name |-> env,
                        property_name |-> property_name]
    /\ pre' = configs
    /\ UNCHANGED <<configs, master_config_name, environment_variables_prefix,
                   environ, adds>>

ResolveExtraProperties ==
    /\ \E env \in DatasetResolveNames :
        /\ result' = resolve_extra_properties(env)
        /\ lastCall' = [op |-> "resolve_extra_properties", name |-> env]
    /\ pre' = configs
    /\ UNCHANGED <<configs, master_config_name, environment_variables_prefix,
                   environ, adds>>

CreateDatasetManager ==
    /\ \E env \in DatasetResolveNames :
        /\ result' = create_dataset_manager(env)
        /\ lastCall' = [op |-> "create_dataset_manager", name |-> env]
    /\ pre' = configs
    /\ UNCHANGED <<configs, master_config_name, environment_variables_prefix,
                   environ, adds>>

DatasetNext ==
    \/ DatasetAddConfiguration
    \/ DatasetResolve
    \/ DatasetResolveProperty
    \/ ResolveExtraProperties
    \/ CreateDatasetManager

SpecDataset == DatasetInit /\ [][DatasetNext]_vars

---------------------------------------------------------------------------
(* Properties of the DatasetConfig facade *)

FixedKeys == {K("project_id"), K("env"), K("dataset_name"), K("internal_tables"),
              K("external_tables")}

OptionalKeys == {K("dataset_name"), K("internal_tables"), K("external_tables")}

\* C8: what resolve_extra_properties(env) returns holds none of the five
\* fixed keys, and holds every other item of resolve(env), and nothing else.
C8_ExtrasExcludeFixedKeys ==
    lastCall.op = "resolve_extra_properties" /\ result.kind = "return" =>
        LET all == resolve(lastCall.name).value
        IN  /\ dict_keys(result.value) \cap FixedKeys = {}
            /\ \A i \in 1..Len(all) :
                  all[i][1] \notin FixedKeys =>
                      dict_has(result.value, all[i][1])
                      /\ dict_get(result.value, all[i][1]) = all[i][2]
            /\ dict_keys(result.value) \subseteq dict_keys(all)

\* the environment was built with extras, one of them named dataset_name
C8_Witness ==
    /\ lastCall.op = "resolve_extra_properties" /\ result.kind = "return"
    /\ adds > 0
    /\ HasValue(Stored, K("dataset_name"), Str(<<"extra_ds">>))
    /\ dict_keys(result.value) = {K("k")}
    /\ Len(Stored) = 6

IsDatasetAdd == lastCall.op = "DatasetConfig.add_configuration"

\* the argument of the last DatasetConfig.add_configuration call for key k
Supplied(k) ==
    IF k = K("dataset_name") THEN lastCall.dataset_name
    ELSE IF k = K("internal_tables") THEN lastCall.internal_tables
    ELSE lastCall.external_tables

\* C9 as stated: an optional key whose argument is falsy keeps the master's
\* value.
C9_AsStated ==
    IsDatasetAdd =>
        /\ HasValue(Added, K("project_id"), lastCall.project_id)
        /\ HasValue(Added, K("env"), Str(lastCall.name))
        /\ \A k \in OptionalKeys :
              /\ Truthy(Supplied(k)) => HasValue(Added, k, Supplied(k))
              /\ ~Truthy(Supplied(k)) /\ has_master_config =>
                    HasValue(Added, k, dict_get(MasterBefore, k))

\* C9 (amended): project_id and env are always the supplied ones.  An
\* optional key is set to its argument when that is truthy; when it is
\* omitted, None or empty the new environment has the value the supplied
\* extras give that key if they name it, else the master's value if there is
\* a master, else no such key; it never has the empty value.
C9_FalsyOptionalsNotForced ==
    IsDatasetAdd =>
        LET extras == or_empty(lastCall.properties)
        IN  /\ HasValue(Added, K("project_id"), lastCall.project_id)
            /\ HasValue(Added, K("env"), Str(lastCall.name))
            /\ \A k \in OptionalKeys :
                  /\ Truthy(Supplied(k)) => HasValue(Added, k, Supplied(k))
                  /\ ~Truthy(Supplied(k)) =>
                        IF dict_has(extras, k)
                        THEN HasValue(Added, k, dict_get(extras, k))
                        ELSE IF has_master_config
                             THEN HasValue(Added, k, dict_get(MasterBefore, k))
                             ELSE ~dict_has(Added, k)

\* dataset_name '' was passed and the master's dataset_name was kept, while
\* the extras' own env and project_id were overwritten
C9_Witness ==
    /\ IsDatasetAdd /\ has_master_config /\ lastCall.name = dev
    /\ lastCall.dataset_name = Str(<< >>)
    /\ lastCall.internal_tables = List(<< >>)
    /\ dict_has(or_empty(lastCall.properties), K("env"))
    /\ HasValue(Added, K("dataset_name"), dict_get(MasterBefore, K("dataset_name")))
    /\ dict_get(MasterBefore, K("internal_tables")) = List(<<"t1">>)
    /\ HasValue(Added, K("env"), Str(dev))

====
